---- MODULE Spec2Model ----
(***************************************************************************)
(* A model of src/data_loader.py: the DataLoader store of three tables     *)
(* (bond_details, cashflow_details, company_insights), its three load      *)
(* calls, which normalise the caller's table IN PLACE and then store a     *)
(* reference to it, and its three retrieval calls.                         *)
(*                                                                         *)
(* Tables are objects on a heap: a pandas DataFrame is mutable and the     *)
(* store keeps the reference it was handed, so the same object may be the  *)
(* caller's table, the input of a later load and a stored table at once.   *)
(*                                                                         *)
(* A string is a tuple of one-character strings; a cell is a record       *)
(* tagged by its field t.                                                  *)
(***************************************************************************)
EXTENDS Integers, Sequences, FiniteSets, TLC

-----------------------------------------------------------------------------
(* Characters and cells *)

Digits == <<"0", "1", "2", "3", "4", "5", "6", "7", "8", "9">>

DigitSet == {Digits[i] : i \in 1..10}

DigitVal(c) == (CHOOSE i \in 1..10 : Digits[i] = c) - 1

\* str.strip() removes Unicode whitespace: of the alphabet, space and form feed.
PyWhitespace == {" ", "\f"}

\* json's decoder skips only space, tab, newline, return: of the alphabet, space.
JsonWhitespace == {" "}

\* json rejects raw control characters inside a string literal (strict=True).
ControlChars == {"\f"}

Null == [t |-> "null"]

Str(s) == [t |-> "str", s |-> s]

\* A number: sign, integer part, fraction digits without trailing zeros.
Num(neg, ip, fd) == [t |-> "num", neg |-> neg, ip |-> ip, fd |-> fd]

IntNum(n) == Num(FALSE, n, <<>>)

\* A parsed JSON object (a dict): a sequence of <<key, value>> pairs.
Obj(pairs) == [t |-> "obj", o |-> pairs]

\* A parsed JSON array (a list).
Arr(elems) == [t |-> "arr", a |-> elems]

\* A calendar date (a pandas Timestamp).
Date(d, m, y) == [t |-> "date", d |-> d, m |-> m, y |-> y]

\* The literal {} of lines 32 and 86.
EmptyDict == Obj(<<>>)

IsStr(x) == x.t = "str"

-----------------------------------------------------------------------------
(* json.loads *)

Fail(i) == [ok |-> FALSE, val |-> Null, pos |-> i]

Ok(v, i) == [ok |-> TRUE, val |-> v, pos |-> i]

At(s, i) == IF i \in 1..Len(s) THEN s[i] ELSE "EOF"

RECURSIVE SkipWs(_, _)
SkipWs(s, i) == IF At(s, i) \in JsonWhitespace THEN SkipWs(s, i + 1) ELSE i

\* The end of a run of digits starting at i (i itself when there is none).
RECURSIVE DigitsEnd(_, _)
DigitsEnd(s, i) == IF At(s, i) \in DigitSet THEN DigitsEnd(s, i + 1) ELSE i

\* The value of the digits s[i..j-1].
RECURSIVE DigitsValue(_, _, _)
DigitsValue(s, i, j) ==
    IF i >= j THEN 0 ELSE DigitsValue(s, i, j - 1) * 10 + DigitVal(s[j - 1])

\* The fraction digits s[i..j-1] as numbers, trailing zeros dropped.
RECURSIVE FracDigits(_, _, _)
FracDigits(s, i, j) ==
    IF i >= j THEN <<>>
    ELSE IF s[j - 1] = "0" THEN FracDigits(s, i, j - 1)
    ELSE [k \in 1..(j - i) |-> DigitVal(s[i + k - 1])]

\* A dict assignment d[k] = v: a repeated key keeps its place and takes the
\* last value.
ObjPut(pairs, k, v) ==
    IF \E n \in 1..Len(pairs) : pairs[n][1] = k
    THEN [n \in 1..Len(pairs) |-> IF pairs[n][1] = k THEN <<k, v>> ELSE pairs[n]]
    ELSE Append(pairs, <<k, v>>)

\* A string literal whose opening quote is at i.
RECURSIVE StringEnd(_, _)
StringEnd(s, i) ==
    IF At(s, i) = "EOF" \/ At(s, i) \in ControlChars THEN 0
    ELSE IF s[i] = "\"" THEN i
    ELSE StringEnd(s, i + 1)

ParseString(s, i) ==
    IF At(s, i) # "\"" THEN Fail(i)
    ELSE LET e == StringEnd(s, i + 1)
         IN  IF e = 0 THEN Fail(i) ELSE Ok(Str(SubSeq(s, i + 1, e - 1)), e + 1)

\* -?(0|[1-9][0-9]*)(\.[0-9]+)? : the alphabet has no exponent letter.
ParseNumber(s, i) ==
    LET neg == At(s, i) = "-"
        b   == IF neg THEN i + 1 ELSE i
        e   == IF At(s, b) = "0" THEN b + 1 ELSE DigitsEnd(s, b)
        fe  == IF At(s, e) = "." THEN DigitsEnd(s, e + 1) ELSE e
    IN  IF e = b THEN Fail(i)
        ELSE IF At(s, e) = "." /\ fe > e + 1
             THEN Ok(Num(neg, DigitsValue(s, b, e), FracDigits(s, e + 1, fe)), fe)
             ELSE Ok(Num(neg, DigitsValue(s, b, e), <<>>), e)

RECURSIVE ParseValue(_, _), ParseMembers(_, _, _), ParseElements(_, _, _)
\* The members of an object, the first key expected at i.
ParseMembers(s, i, acc) ==
    LET k == ParseString(s, i)
        c == SkipWs(s, k.pos)
        v == ParseValue(s, SkipWs(s, c + 1))
        e == SkipWs(s, v.pos)
    IN  IF ~k.ok \/ At(s, c) # ":" \/ ~v.ok THEN Fail(i)
        ELSE IF At(s, e) = "}" THEN Ok(Obj(ObjPut(acc, k.val.s, v.val)), e + 1)
        ELSE IF At(s, e) = ","
             THEN ParseMembers(s, SkipWs(s, e + 1), ObjPut(acc, k.val.s, v.val))
        ELSE Fail(i)

\* The elements of an array, the first value expected at i.
ParseElements(s, i, acc) ==
    LET v == ParseValue(s, i)
        e == SkipWs(s, v.pos)
    IN  IF ~v.ok THEN Fail(i)
        ELSE IF At(s, e) = "]" THEN Ok(Arr(Append(acc, v.val)), e + 1)
        ELSE IF At(s, e) = ","
             THEN ParseElements(s, SkipWs(s, e + 1), Append(acc, v.val))
        ELSE Fail(i)

ParseValue(s, i) ==
    LET c == At(s, i)
        n == SkipWs(s, i + 1)
    IN  IF c = "{"
        THEN IF At(s, n) = "}" THEN Ok(EmptyDict, n + 1) ELSE ParseMembers(s, n, <<>>)
        ELSE IF c = "["
        THEN IF At(s, n) = "]" THEN Ok(Arr(<<>>), n + 1) ELSE ParseElements(s, n, <<>>)
        ELSE IF c = "\"" THEN ParseString(s, i)
        ELSE IF c = "-" \/ c \in DigitSet THEN ParseNumber(s, i)
        ELSE Fail(i)

\* json.loads(x): one value between optional whitespace, nothing after it;
\* ok = FALSE stands for JSONDecodeError.
JsonLoads(s) ==
    LET v == ParseValue(s, SkipWs(s, 1))
    IN  IF v.ok /\ SkipWs(s, v.pos) = Len(s) + 1 THEN v ELSE Fail(1)

-----------------------------------------------------------------------------
(* str.strip, pd.to_datetime, pd.to_numeric, Series.str.contains *)

\* bool(x.strip()): some character of x is not whitespace.
StripNonEmpty(s) == \E i \in 1..Len(s) : s[i] \notin PyWhitespace

AllDigits(s) == \A i \in 1..Len(s) : s[i] \in DigitSet

\* The positions of the character c in s, in order.
Positions(s, c) == SelectSeq([i \in 1..Len(s) |-> i], LAMBDA i : s[i] = c)

IsLeap(y) == (y % 4 = 0 /\ y % 100 # 0) \/ y % 400 = 0

DaysIn(m, y) ==
    IF m = 2 THEN (IF IsLeap(y) THEN 29 ELSE 28)
    ELSE IF m \in {4, 6, 9, 11} THEN 30 ELSE 31

\* strptime's %d and %m: one or two digits (%d also a space and a digit).
DayField(s) ==
    \/ Len(s) \in 1..2 /\ AllDigits(s)
    \/ Len(s) = 2 /\ s[1] = " " /\ s[2] \in DigitSet

FieldValue(s) == IF s[1] = " " THEN DigitVal(s[2]) ELSE DigitsValue(s, 1, Len(s) + 1)

\* One string under format='%d-%m-%Y' (the whole string must match):
\* ok = FALSE is the value errors='coerce' turns into NaT.
ParseDate(s) ==
    LET p == Positions(s, "-")
        ds == SubSeq(s, 1, p[1] - 1)
        ms == SubSeq(s, p[1] + 1, p[2] - 1)
        ys == SubSeq(s, p[2] + 1, Len(s))
        d == FieldValue(ds)
        m == FieldValue(ms)
        y == FieldValue(ys)
    IN  IF /\ Len(p) = 2
           /\ DayField(ds)
           /\ Len(ms) \in 1..2 /\ AllDigits(ms)
           /\ Len(ys) = 4 /\ AllDigits(ys)
           /\ m \in 1..12 /\ y >= 1 /\ d \in 1..DaysIn(m, y)
        THEN Ok(Date(d, m, y), 0)
        ELSE Fail(0)

\* One cell under pd.to_datetime(..., format='%d-%m-%Y', errors='coerce'):
\* a Timestamp stays, a string is parsed, anything else (null, a number,
\* whose text never matches the format, a dict, a list) becomes NaT.
ToDatetimeCell(c) ==
    IF c.t = "date" THEN c
    ELSE IF IsStr(c) /\ ParseDate(c.s).ok THEN ParseDate(c.s).val
    ELSE Null

\* pd.to_datetime(series, format='%d-%m-%Y', errors='coerce')
ToDatetime(series) == [i \in 1..Len(series) |-> ToDatetimeCell(series[i])]

RECURSIVE SkipPyWs(_, _)
SkipPyWs(s, i) == IF At(s, i) \in PyWhitespace THEN SkipPyWs(s, i + 1) ELSE i

\* One string as a number: whitespace, a sign, digits with an optional
\* fraction (or a fraction alone), whitespace, and nothing else.
ParseNumeric(s) ==
    LET a == SkipPyWs(s, 1)
        neg == At(s, a) = "-"
        b == IF At(s, a) \in {"-", "+"} THEN a + 1 ELSE a
        e == DigitsEnd(s, b)
        fe == IF At(s, e) = "." THEN DigitsEnd(s, e + 1) ELSE e
        z == SkipPyWs(s, fe)
    IN  IF z = Len(s) + 1 /\ (e > b \/ fe > e + 1)
        THEN Ok(Num(neg, DigitsValue(s, b, e),
                    IF fe > e THEN FracDigits(s, e + 1, fe) ELSE <<>>), 0)
        ELSE Fail(0)

\* One cell under pd.to_numeric(..., errors='coerce'): a number stays, a
\* string is parsed, anything else becomes NaN.
ToNumericCell(c) ==
    IF c.t = "num" THEN c
    ELSE IF IsStr(c) /\ ParseNumeric(c.s).ok THEN ParseNumeric(c.s).val
    ELSE Null

\* pd.to_numeric(series, errors='coerce')
ToNumeric(series) == [i \in 1..Len(series) |-> ToNumericCell(series[i])]

Lower(c) == IF c = "A" THEN "a" ELSE IF c = "T" THEN "t" ELSE c

\* re.compile(pat) for patterns over letters, digits, space, "." and "(":
\* an unclosed group is an error (re.error).
RegexValid(pat) == \A i \in 1..Len(pat) : pat[i] # "("

\* re.search(pat, s, re.IGNORECASE) for such a pattern: "." is any character.
RegexSearch(pat, s) ==
    \E i \in 0..(Len(s) - Len(pat)) :
        \A k \in 1..Len(pat) : pat[k] = "." \/ Lower(pat[k]) = Lower(s[i + k])

\* series.str.contains(pat, case=False, na=False), pat valid: regex=True is
\* the default; null and non-string cells do not match.
StrContains(series, pat) ==
    [i \in 1..Len(series) |-> IsStr(series[i]) /\ RegexSearch(pat, series[i].s)]

-----------------------------------------------------------------------------
(* Tables (DataFrames) and the column lists of the three loaders *)

\* A table: its column names and its rows, each row a function on the columns.
Table(cols, rows) == [cols |-> cols, rows |-> rows]

NoTable == Table({}, <<>>)

\* df[col]: the cells of a column, by row (a Series).
Column(df, col) == [i \in 1..Len(df.rows) |-> df.rows[i][col]]

\* df[col] = series
SetColumn(df, col, series) ==
    [df EXCEPT !.rows =
        [i \in 1..Len(df.rows) |-> [df.rows[i] EXCEPT ![col] = series[i]]]]

\* df[mask]: the rows whose mask entry is true, in order, as a new table.
FilterRows(df, mask) ==
    LET kept == SelectSeq([i \in 1..Len(df.rows) |-> i], LAMBDA i : mask[i])
    IN  Table(df.cols, [k \in 1..Len(kept) |-> df.rows[kept[k]]])

bond_required_columns ==
    <<"isin", "company_name", "issue_size", "allotment_date", "maturity_date",
      "issuer_details", "instrument_details", "coupon_details">>

bond_json_columns ==
    <<"issuer_details", "instrument_details", "coupon_details",
      "redemption_details", "credit_rating_details", "listing_details">>

cashflow_required_columns == <<"isin", "cash_flow_date", "cash_flow_amount">>

\* The optional date column forgotten.
date_columns_short == <<"cash_flow_date">>

date_columns == <<"cash_flow_date", "record_date">>

numeric_columns ==
    <<"cash_flow_amount", "principal_amount", "interest_amount", "tds_amount",
      "remaining_principal">>

company_required_columns == <<"company_name", "company_industry">>

company_json_columns ==
    <<"key_metrics", "income_statement", "balance_sheet", "cashflow",
      "lenders_profile">>

Range(seq) == {seq[i] : i \in 1..Len(seq)}

\* The membership test inverted: the present required columns.
MissingCols_inverted(required, df) ==
    SelectSeq(required, LAMBDA col : col \in df.cols)

\* [col for col in required_columns if col not in df.columns]
MissingCols(required, df) == SelectSeq(required, LAMBDA col : col \notin df.cols)

\* Without x.strip(): a blank string goes to json.loads.
JsonCell_nostrip(c) == IF IsStr(c) THEN JsonLoads(c.s) ELSE Ok(EmptyDict, 0)

\* With x for {}: a blank or non-string cell is left as it is.
JsonCell_keep(c) ==
    IF IsStr(c) /\ StripNonEmpty(c.s) THEN JsonLoads(c.s) ELSE Ok(c, 0)

\* lambda x: json.loads(x) if isinstance(x, str) and x.strip() else {}
JsonCell(c) ==
    IF IsStr(c) /\ StripNonEmpty(c.s) THEN JsonLoads(c.s) ELSE Ok(EmptyDict, 0)

\* for col in json_columns: if col in df.columns: df[col] = df[col].apply(...)
\* from the k-th column on. A cell that raises ends the loop at its column:
\* the columns before it are already assigned, that column is not.
RECURSIVE ParseJsonColumns(_, _, _)
ParseJsonColumns(df, cols, k) ==
    IF k > Len(cols) THEN [ok |-> TRUE, df |-> df]
    ELSE IF cols[k] \notin df.cols THEN ParseJsonColumns(df, cols, k + 1)
    ELSE LET applied == [i \in 1..Len(df.rows) |-> JsonCell(Column(df, cols[k])[i])]
         IN  IF \E i \in 1..Len(df.rows) : ~applied[i].ok
             THEN [ok |-> FALSE, df |-> df]
             ELSE ParseJsonColumns(
                      SetColumn(df, cols[k],
                                [i \in 1..Len(df.rows) |-> applied[i].val]),
                      cols, k + 1)

\* for col in date_columns: if col in df.columns:
\*     df[col] = pd.to_datetime(df[col], format='%d-%m-%Y', errors='coerce')
RECURSIVE ConvertDateColumns(_, _, _)
ConvertDateColumns(df, cols, k) ==
    IF k > Len(cols) THEN df
    ELSE IF cols[k] \notin df.cols THEN ConvertDateColumns(df, cols, k + 1)
    ELSE ConvertDateColumns(SetColumn(df, cols[k], ToDatetime(Column(df, cols[k]))),
                            cols, k + 1)

\* for col in numeric_columns: if col in df.columns:
\*     df[col] = pd.to_numeric(df[col], errors='coerce')
RECURSIVE ConvertNumericColumns(_, _, _)
ConvertNumericColumns(df, cols, k) ==
    IF k > Len(cols) THEN df
    ELSE IF cols[k] \notin df.cols THEN ConvertNumericColumns(df, cols, k + 1)
    ELSE ConvertNumericColumns(SetColumn(df, cols[k], ToNumeric(Column(df, cols[k]))),
                               cols, k + 1)

\* What a load call does to the table it is handed: the exception it raises
\* ("none": it returns), the columns its message names, and the table object
\* as the call leaves it.
Outcome(raised, missing, df) == [raised |-> raised, missing |-> missing, df |-> df]

LoadJsonTable(df, required, json_columns) ==
    LET missing == MissingCols(required, df)
        parsed == ParseJsonColumns(df, json_columns, 1)
    IN  IF missing # <<>> THEN Outcome("missing", missing, df)
        ELSE IF ~parsed.ok THEN Outcome("json", <<>>, parsed.df)
        ELSE Outcome("none", <<>>, parsed.df)

\* The body of load_bond_data's try block, up to the assignment of line 34.
BondOutcome(df) == LoadJsonTable(df, bond_required_columns, bond_json_columns)

\* The body of load_company_data's try block, up to the assignment of line 88.
CompanyOutcome(df) ==
    LoadJsonTable(df, company_required_columns, company_json_columns)

\* The body of load_cashflow_data's try block, up to the assignment of line 63.
CashflowOutcome(df) ==
    LET missing == MissingCols(cashflow_required_columns, df)
        dated == ConvertDateColumns(df, date_columns, 1)
    IN  IF missing # <<>> THEN Outcome("missing", missing, df)
        ELSE Outcome("none", <<>>,
                     ConvertNumericColumns(dated, numeric_columns, 1))

-----------------------------------------------------------------------------
(* The tables the caller hands to the load calls *)

sA1 == <<"A", "1">>

sA2 == <<"A", "2">>

sB9 == <<"b", "9">>

sTata == <<"T", "a", "t", "a">>

sTATAb == <<"T", "A", "T", "A", " ", "b">>

sab == <<"a", "b">>

\* {"a":1}
jObj == <<"{", "\"", "a", "\"", ":", "1", "}">>

\* {"a": {"b":[1,2.5]}, "a": []}  (a repeated key)
jNested ==
    <<"{", "\"", "a", "\"", ":", " ", "{", "\"", "b", "\"", ":", "[", "1", ",",
      "2", ".", "5", "]", "}", ",", "\"", "a", "\"", ":", "[", "]", "}">>

\* [1]
jArr == <<"[", "1", "]">>

\* {} between spaces
jEmptyPad == <<" ", "{", "}", " ">>

\* "ab", a JSON string literal
jStrLit == <<"\"", "a", "b", "\"">>

\* "1", a JSON string literal holding a digit
jStrNum == <<"\"", "1", "\"">>

\* {"a"  (cut short)
jMalformed == <<"{", "\"", "a", "\"">>

\* a form feed and {}: not blank for strip(), not whitespace for json
jFormFeed == <<"\f", "{", "}">>

\* 05-03-2023
dPadded == <<"0", "5", "-", "0", "3", "-", "2", "0", "2", "3">>

\* 5-3-2023
dPlain == <<"5", "-", "3", "-", "2", "0", "2", "3">>

\* 31-02-2023: no such day
dNoDay == <<"3", "1", "-", "0", "2", "-", "2", "0", "2", "3">>

\* 29-02-2024: a leap day
dLeap == <<"2", "9", "-", "0", "2", "-", "2", "0", "2", "4">>

\* 2023-03-05: year first
dIso == <<"2", "0", "2", "3", "-", "0", "3", "-", "0", "5">>

\* ab-a-date
dWords == <<"a", "b", "-", "a", "-", "b">>

\* 123.45
nDecimal == <<"1", "2", "3", ".", "4", "5">>

\* -12 between spaces
nSigned == <<" ", "-", "1", "2", " ">>

\* 1.2.3
nDots == <<"1", ".", "2", ".", "3">>

Filler == Str(<<"b">>)

\* A row on cols: the cells given by the record cells, Filler elsewhere.
Row(cols, cells) ==
    [c \in cols |-> IF c \in DOMAIN cells THEN cells[c] ELSE Filler]

Rows(cols, specs) == [i \in 1..Len(specs) |-> Row(cols, specs[i])]

BondCols == Range(bond_required_columns)

CashflowCols == Range(cashflow_required_columns)

CompanyCols == Range(company_required_columns)

\* Every required column and one optional structured column; every kind of
\* cell that loads; the isin A1 twice, not adjacent.
BondClean ==
    LET cols == BondCols \cup {"redemption_details"}
    IN  Table(cols, Rows(cols, <<
          [isin |-> Str(sA1), company_name |-> Str(sTata),
           issuer_details |-> Str(jObj), instrument_details |-> Str(jEmptyPad),
           coupon_details |-> Str(jNested), redemption_details |-> Str(<<>>)],
          [isin |-> Str(sA2), company_name |-> Null,
           issuer_details |-> Null, instrument_details |-> Str(<<" ">>),
           coupon_details |-> Str(<<"\f", " ">>), redemption_details |-> IntNum(5)],
          [isin |-> Str(sA1), company_name |-> Str(sab),
           issuer_details |-> Str(jArr), instrument_details |-> Obj(<<>>),
           coupon_details |-> Str(<<"-", "0", ".", "5", "0">>),
           redemption_details |-> Str(jObj)] >>))

\* Cells that are JSON string literals: they parse to strings.
BondStrings ==
    Table(BondCols, Rows(BondCols, <<
      [isin |-> Str(sA2), issuer_details |-> Str(jObj),
       instrument_details |-> Str(jStrLit), coupon_details |-> Str(jStrNum)] >>))

\* A malformed cell in the last required structured column, second row.
BondMalformed ==
    LET cols == BondCols \cup {"listing_details"}
    IN  Table(cols, Rows(cols, <<
          [isin |-> Str(sA1), issuer_details |-> Str(jObj),
           instrument_details |-> Str(jObj), coupon_details |-> Str(jObj),
           listing_details |-> Str(jObj)],
          [isin |-> Str(sA2), issuer_details |-> Str(jObj),
           instrument_details |-> Str(jEmptyPad),
           coupon_details |-> Str(jFormFeed),
           listing_details |-> Str(jMalformed)] >>))

\* Two required columns absent, a malformed cell in a present one.
BondMissing ==
    LET cols == (BondCols \ {"isin", "coupon_details"}) \cup {"listing_details"}
    IN  Table(cols, Rows(cols, <<
          [issuer_details |-> Str(jMalformed), listing_details |-> Str(jObj)] >>))

BondEmpty == Table(BondCols, <<>>)

\* One table with the required columns of all three kinds.
Merged ==
    LET cols == BondCols \cup CashflowCols \cup CompanyCols
                  \cup {"key_metrics", "principal_amount"}
    IN  Table(cols, Rows(cols, <<
          [isin |-> Str(sA1), company_name |-> Str(sTata),
           issuer_details |-> Str(jObj), instrument_details |-> Str(jObj),
           coupon_details |-> Str(jObj), key_metrics |-> Str(jObj),
           cash_flow_date |-> Str(dPadded), cash_flow_amount |-> Str(nDecimal),
           principal_amount |-> Str(sab)] >>))

CashflowMixed ==
    LET cols == CashflowCols \cup {"record_date", "principal_amount"}
    IN  Table(cols, Rows(cols, <<
          [isin |-> Str(sA1), cash_flow_date |-> Str(dPadded),
           cash_flow_amount |-> Str(nDecimal), record_date |-> Str(dWords),
           principal_amount |-> Str(sab)],
          [isin |-> Str(sA2), cash_flow_date |-> Str(dNoDay),
           cash_flow_amount |-> Null, record_date |-> Null,
           principal_amount |-> IntNum(7)],
          [isin |-> Str(sA1), cash_flow_date |-> Str(dPlain),
           cash_flow_amount |-> Str(nSigned), record_date |-> Str(dLeap),
           principal_amount |-> Str(nDots)],
          [isin |-> Null, cash_flow_date |-> IntNum(5),
           cash_flow_amount |-> Str(<<>>), record_date |-> Str(dIso),
           principal_amount |-> Str(<<".", "5">>)] >>))

CashflowMissing ==
    LET cols == {"isin", "cash_flow_date", "tds_amount"}
    IN  Table(cols, Rows(cols, <<
          [cash_flow_date |-> Str(dWords), tds_amount |-> Str(sab)] >>))

CompanyClean ==
    LET cols == CompanyCols \cup {"key_metrics", "cashflow"}
    IN  Table(cols, Rows(cols, <<
          [company_name |-> Str(sTata), key_metrics |-> Str(jObj),
           cashflow |-> Str(<<>>)],
          [company_name |-> Null, key_metrics |-> Null, cashflow |-> Str(jArr)],
          [company_name |-> Str(sTATAb), key_metrics |-> Str(jNested),
           cashflow |-> Str(jEmptyPad)],
          [company_name |-> Str(sab), key_metrics |-> IntNum(0),
           cashflow |-> Str(jObj)] >>))

CompanyMalformed ==
    LET cols == CompanyCols \cup {"key_metrics", "lenders_profile"}
    IN  Table(cols, Rows(cols, <<
          [company_name |-> Str(sTata), key_metrics |-> Str(jObj),
           lenders_profile |-> Str(jMalformed)] >>))

CompanyMissing ==
    LET cols == {"company_name", "key_metrics"}
    IN  Table(cols, Rows(cols, <<
          [company_name |-> Str(sTata), key_metrics |-> Str(jObj)] >>))

BondInputs ==
    {BondClean, BondStrings, BondMalformed, BondMissing, BondEmpty, Merged,
     CashflowMixed}

CashflowInputs == {CashflowMixed, CashflowMissing, Merged, BondEmpty}

CompanyInputs == {CompanyClean, CompanyMalformed, CompanyMissing, Merged}

\* The isin argument: None (no argument), the empty string, isins.
IsinArgs == {Null, Str(<<>>), Str(sA1), Str(sA2), Str(sB9)}

\* The company_name argument: None, the empty string, texts, patterns.
CompanyArgs ==
    {Null, Str(<<>>), Str(<<"t", "a", "t", "a">>), Str(<<"A", " ", "b">>),
     Str(<<"a", ".">>), Str(<<".">>), Str(<<"(">>), Str(sB9)}

\* The load calls of one behaviour.
MaxLoads == 2

-----------------------------------------------------------------------------
(* The store *)

VARIABLES
    heap,              \* the table objects made so far: object o is heap[o]
    bond_details,      \* self.bond_details: an object, or None
    cashflow_details,  \* self.cashflow_details
    company_insights,  \* self.company_insights
    last,              \* the last call: its arguments, its outcome, the state before it
    loads,             \* the number of load calls made
    attempted,         \* history: the kinds a load call was made for
    succeeded,         \* history: the kinds a load call has succeeded for
    latest             \* history: per kind, the table as its last successful load left it

vars ==
    <<heap, bond_details, cashflow_details, company_insights, last, loads,
      attempted, succeeded, latest>>

\* None, as the value of a stored reference.
None == 0

Kinds == {"bond", "cashflow", "company"}

\* The three stored references, by kind.
Stored == [bond |-> bond_details, cashflow |-> cashflow_details,
           company |-> company_insights]

\* The state a call starts in; the heap includes the table the caller made
\* for the call.
Snapshot(h) ==
    [heap |-> h, bond |-> bond_details, cashflow |-> cashflow_details,
     company |-> company_insights]

\* A returned DataFrame: the object it is (None for a new one) and its value.
Returned(ref, df) == [ref |-> ref, df |-> df]

Call(op, kind, obj, arg, raised, missing, ret, pre) ==
    [op |-> op, kind |-> kind, obj |-> obj, arg |-> arg, raised |-> raised,
     missing |-> missing, ret |-> ret, pre |-> pre]

\* __init__: the three tables are None.
Init ==
    /\ heap = <<>>
    /\ bond_details = None
    /\ cashflow_details = None
    /\ company_insights = None
    /\ last = Call("init", "none", None, Null, "none", <<>>,
                   Returned(None, NoTable), Snapshot(<<>>))
    /\ loads = 0
    /\ attempted = {}
    /\ succeeded = {}
    /\ latest = [k \in Kinds |-> NoTable]

\* The heap as a load call finds it when handed the object o: o is a table
\* the caller already holds (one it passed before, or was returned by an
\* unfiltered get), or a new table, one of inputs.
InputHeaps(o, inputs) ==
    IF o \in 1..Len(heap) THEN {heap} ELSE {Append(heap, df) : df \in inputs}

\* What every load call does besides its own assignment.
LoadFrame(kind, o, h, out) ==
    /\ heap' = [h EXCEPT ![o] = out.df]
    /\ last' = Call("load", kind, o, Null, out.raised, out.missing,
                    Returned(None, NoTable), Snapshot(h))
    /\ loads' = loads + 1
    /\ attempted' = attempted \cup {kind}
    /\ succeeded' = IF out.raised = "none" THEN succeeded \cup {kind} ELSE succeeded
    /\ latest' = IF out.raised = "none" THEN [latest EXCEPT ![kind] = out.df]
                 ELSE latest

load_bond_data(o) ==
    \E h \in InputHeaps(o, BondInputs) :
        /\ loads < MaxLoads
        /\ LET out == BondOutcome(h[o])
           IN  /\ LoadFrame("bond", o, h, out)
               /\ bond_details' = IF out.raised = "none" THEN o ELSE bond_details
        /\ UNCHANGED <<cashflow_details, company_insights>>

load_cashflow_data(o) ==
    \E h \in InputHeaps(o, CashflowInputs) :
        /\ loads < MaxLoads
        /\ LET out == CashflowOutcome(h[o])
           IN  /\ LoadFrame("cashflow", o, h, out)
               /\ cashflow_details' =
                      IF out.raised = "none" THEN o ELSE cashflow_details
        /\ UNCHANGED <<bond_details, company_insights>>

load_company_data(o) ==
    \E h \in InputHeaps(o, CompanyInputs) :
        /\ loads < MaxLoads
        /\ LET out == CompanyOutcome(h[o])
           IN  /\ LoadFrame("company", o, h, out)
               /\ company_insights' =
                      IF out.raised = "none" THEN o ELSE company_insights
        /\ UNCHANGED <<bond_details, cashflow_details>>

\* `if isin:` / `if company_name:` : None and the empty string are false.
Truthy(arg) == IsStr(arg) /\ arg.s # <<>>

\* self.<table>[self.<table>['isin'] == isin]
IsinRows(df, isin) ==
    FilterRows(df, [i \in 1..Len(df.rows) |-> Column(df, "isin")[i] = isin])

\* What get_bond_details and get_cashflow_details do with the reference ref.
IsinLookup(ref, isin) ==
    IF ref = None THEN [raised |-> "not_loaded", ret |-> Returned(None, NoTable)]
    ELSE IF Truthy(isin)
         THEN [raised |-> "none", ret |-> Returned(None, IsinRows(heap[ref], isin))]
    ELSE [raised |-> "none", ret |-> Returned(ref, heap[ref])]

\* What get_company_insights does.
CompanyLookup(ref, company_name) ==
    IF ref = None THEN [raised |-> "not_loaded", ret |-> Returned(None, NoTable)]
    ELSE IF Truthy(company_name)
         THEN IF ~RegexValid(company_name.s)
              THEN [raised |-> "regex", ret |-> Returned(None, NoTable)]
              ELSE [raised |-> "none",
                    ret |-> Returned(None,
                        FilterRows(heap[ref],
                            StrContains(Column(heap[ref], "company_name"),
                                        company_name.s)))]
    ELSE [raised |-> "none", ret |-> Returned(ref, heap[ref])]

\* A retrieval call assigns nothing.
GetFrame(kind, arg, res) ==
    /\ last' = Call("get", kind, None, arg, res.raised, <<>>, res.ret,
                    Snapshot(heap))
    /\ UNCHANGED <<heap, loads, attempted, succeeded, latest>>

\* With self.bond_details = self.bond_details[mask]: a filtered retrieval
\* stores the new, filtered table.
get_bond_details_narrowing(isin) ==
    LET res == IsinLookup(bond_details, isin)
        narrowed == res.raised = "none" /\ res.ret.ref = None
    IN  /\ last' = Call("get", "bond", None, isin, res.raised, <<>>, res.ret,
                        Snapshot(heap))
        /\ heap' = IF narrowed THEN Append(heap, res.ret.df) ELSE heap
        /\ bond_details' = IF narrowed THEN Len(heap) + 1 ELSE bond_details
        /\ UNCHANGED <<cashflow_details, company_insights, loads, attempted,
                       succeeded, latest>>

get_bond_details(isin) ==
    /\ GetFrame("bond", isin, IsinLookup(bond_details, isin))
    /\ UNCHANGED <<bond_details, cashflow_details, company_insights>>

\* With `if self.bond_details is None`: the wrong table is tested.
get_cashflow_details_wrongtest(isin) ==
    /\ GetFrame("cashflow", isin,
                IF bond_details = None THEN IsinLookup(None, isin)
                ELSE IsinLookup(cashflow_details, isin))
    /\ UNCHANGED <<bond_details, cashflow_details, company_insights>>

get_cashflow_details(isin) ==
    /\ GetFrame("cashflow", isin, IsinLookup(cashflow_details, isin))
    /\ UNCHANGED <<bond_details, cashflow_details, company_insights>>

get_company_insights(company_name) ==
    /\ GetFrame("company", company_name,
                CompanyLookup(company_insights, company_name))
    /\ UNCHANGED <<bond_details, cashflow_details, company_insights>>

Next ==
    \/ \E o \in 1..(Len(heap) + 1) : load_bond_data(o)
    \/ \E o \in 1..(Len(heap) + 1) : load_cashflow_data(o)
    \/ \E o \in 1..(Len(heap) + 1) : load_company_data(o)
    \/ \E isin \in IsinArgs : get_bond_details(isin)
    \/ \E isin \in IsinArgs : get_cashflow_details(isin)
    \/ \E company_name \in CompanyArgs : get_company_insights(company_name)

Spec == Init /\ [][Next]_vars
-----------------------------------------------------------------------------
(* The specification's column lists (spec.md, section 6), for the claims *)

SpecRequired ==
    [bond |-> {"isin", "company_name", "issue_size", "allotment_date",
               "maturity_date", "issuer_details", "instrument_details",
               "coupon_details"},
     cashflow |-> {"isin", "cash_flow_date", "cash_flow_amount"},
     company |-> {"company_name", "company_industry"}]

SpecStructured ==
    [bond |-> {"issuer_details", "instrument_details", "coupon_details",
               "redemption_details", "credit_rating_details", "listing_details"},
     cashflow |-> {},
     company |-> {"key_metrics", "income_statement", "balance_sheet", "cashflow",
                  "lenders_profile"}]

SpecDateColumns == {"cash_flow_date", "record_date"}

SpecNumericColumns ==
    {"cash_flow_amount", "principal_amount", "interest_amount", "tds_amount",
     "remaining_principal"}

\* The table a load call was handed, as it was before the call, and as it is now.
LastInput == last.pre.heap[last.obj]

LastOutput == heap[last.obj]

\* The table behind a reference (NoTable behind None).
TableOf(h, ref) == IF ref = None THEN NoTable ELSE h[ref]

Blank(c) == IsStr(c) /\ \A i \in 1..Len(c.s) : c.s[i] \in {" ", "\f"}

ValidJson(c) == IsStr(c) /\ ~Blank(c) /\ JsonLoads(c.s).ok

Malformed(c) == IsStr(c) /\ ~Blank(c) /\ ~JsonLoads(c.s).ok

\* The cells of the designated structured columns present in df satisfy P.
SomeStructuredCell(kind, df, P(_)) ==
    \E col \in SpecStructured[kind] \cap df.cols :
        \E i \in 1..Len(df.rows) : P(df.rows[i][col])

LoadedLast(kinds) == last.op = "load" /\ last.kind \in kinds

GotLast(kinds) == last.op = "get" /\ last.kind \in kinds

-----------------------------------------------------------------------------
(* C1 *)

\* C1: a load call that raises leaves the table stored for its kind as it
\* was before the call: the same object (or None) with the same cells.
C1_FailedLoadKeepsStoredTable ==
    (LoadedLast(Kinds) /\ last.raised # "none") =>
        /\ Stored[last.kind] = last.pre[last.kind]
        /\ TableOf(heap, Stored[last.kind])
               = TableOf(last.pre.heap, last.pre[last.kind])

-----------------------------------------------------------------------------
(* C2 *)

\* C2: a retrieval call raises "not loaded" exactly when no load call of its
\* kind has succeeded, with or without a filter argument.
C2_NotLoadedIffNeverSucceeded ==
    GotLast(Kinds) => (last.raised = "not_loaded" <=> last.kind \notin succeeded)

\* A filtered retrieval raises "not loaded" after a failed load of its kind
\* and a successful load of another kind.
C2_Witness ==
    /\ GotLast(Kinds) /\ last.raised = "not_loaded" /\ Truthy(last.arg)
    /\ last.kind \in attempted
    /\ succeeded # {}

-----------------------------------------------------------------------------
(* C3 *)

C3_Missing == SpecRequired[last.kind] \ LastInput.cols

\* C3: a load call raises exactly when a required column is absent or a
\* structured cell is malformed; with columns absent, the error names
\* exactly the absent required columns and no cell has been normalised.
C3_RaisesIffMissingOrMalformed ==
    LoadedLast(Kinds) =>
        /\ last.raised # "none" <=>
               (C3_Missing # {} \/ SomeStructuredCell(last.kind, LastInput, Malformed))
        /\ last.raised = "missing" <=> C3_Missing # {}
        /\ C3_Missing # {} =>
               /\ Range(last.missing) = C3_Missing
               /\ Len(last.missing) = Cardinality(C3_Missing)
               /\ LastOutput = LastInput

\* A load of a table without two required columns, with a non-required
\* column and a malformed cell, raises naming the two.
C3_Witness ==
    /\ LoadedLast({"bond"}) /\ last.raised = "missing"
    /\ Cardinality(C3_Missing) = 2
    /\ LastInput.cols \ SpecRequired["bond"] # {}
    /\ SomeStructuredCell("bond", LastInput, Malformed)

-----------------------------------------------------------------------------
(* C4 *)

\* C4: the table stored for each kind is the table as the most recent
\* successful load of that kind left it (nothing stored before the first).
C4_StoredIsLatestLoad ==
    \A k \in Kinds :
        /\ Stored[k] = None <=> k \notin succeeded
        /\ TableOf(heap, Stored[k]) = latest[k]

-----------------------------------------------------------------------------
(* C5 *)

\* C5: get_bond_details / get_cashflow_details on a loaded table, given any
\* filter argument, the empty string included, returns the rows whose isin
\* equals it, in stored order; only without an argument the stored table.
C5_IsinFilterExact ==
    (GotLast({"bond", "cashflow"}) /\ Stored[last.kind] # None) =>
        /\ last.raised = "none"
        /\ IF last.arg = Null
           THEN last.ret = Returned(Stored[last.kind], heap[Stored[last.kind]])
           ELSE last.ret =
                    Returned(None,
                        Table(heap[Stored[last.kind]].cols,
                              SelectSeq(heap[Stored[last.kind]].rows,
                                        LAMBDA r : r["isin"] = last.arg)))

-----------------------------------------------------------------------------
(* C6 *)

LowerStr(s) == [i \in 1..Len(s) |-> Lower(s[i])]

\* s contains sub as a contiguous run of characters.
Contains(s, sub) ==
    \E i \in 0..(Len(s) - Len(sub)) : \A k \in 1..Len(sub) : s[i + k] = sub[k]

\* C6: get_company_insights on a loaded table, given any filter argument,
\* returns the rows whose company_name is a string containing the argument
\* as a literal substring, case ignored, and never raises.
C6_CompanyFilterLiteral ==
    (GotLast({"company"}) /\ company_insights # None /\ last.arg # Null) =>
        /\ last.raised = "none"
        /\ last.ret.df =
               Table(heap[company_insights].cols,
                     SelectSeq(heap[company_insights].rows,
                         LAMBDA r : /\ IsStr(r["company_name"])
                                    /\ Contains(LowerStr(r["company_name"].s),
                                                LowerStr(last.arg.s))))

-----------------------------------------------------------------------------
(* C7 *)

\* C7: in load_bond_data and load_company_data on a table with every
\* required column, the call fails exactly when a structured cell is a
\* non-blank string that is not JSON, and otherwise each structured cell
\* becomes its parsed value (a non-blank JSON string) or the empty structure
\* (a blank string, a non-string), every other column staying as supplied.
C7_StructuredCellsNormalised ==
    (LoadedLast({"bond", "company"}) /\ SpecRequired[last.kind] \subseteq LastInput.cols) =>
        /\ last.raised = "json" <=> SomeStructuredCell(last.kind, LastInput, Malformed)
        /\ last.raised = "none" =>
               /\ LastOutput.cols = LastInput.cols
               /\ Len(LastOutput.rows) = Len(LastInput.rows)
               /\ \A i \in 1..Len(LastInput.rows) : \A col \in LastInput.cols :
                      LET c == LastInput.rows[i][col]
                          d == LastOutput.rows[i][col]
                      IN  IF col \notin SpecStructured[last.kind] THEN d = c
                          ELSE IF ValidJson(c) THEN d = JsonLoads(c.s).val
                          ELSE d = EmptyDict

\* A successful bond load of a table with an optional structured column and
\* cells of every kind: JSON text, a blank string, an empty string, a
\* whitespace-only string, null, a number.
C7_Witness ==
    /\ LoadedLast({"bond"}) /\ last.raised = "none"
    /\ "redemption_details" \in LastInput.cols
    /\ SomeStructuredCell("bond", LastInput, LAMBDA c : ValidJson(c) /\ JsonLoads(c.s).val # EmptyDict)
    /\ SomeStructuredCell("bond", LastInput, LAMBDA c : c = Str(<<>>))
    /\ SomeStructuredCell("bond", LastInput, LAMBDA c : Blank(c) /\ c # Str(<<>>))
    /\ SomeStructuredCell("bond", LastInput, LAMBDA c : c = Null)
    /\ SomeStructuredCell("bond", LastInput, LAMBDA c : c.t = "num")

-----------------------------------------------------------------------------
(* C8 *)

\* The value the claim gives a date cell: the date of a valid
\* day-month-year string, null for anything else.
C8_DateOfString(c) ==
    IF IsStr(c) /\ ParseDate(c.s).ok THEN ParseDate(c.s).val ELSE Null

\* The value the claim gives a numeric cell: the number it is or spells,
\* null for anything else.
C8_NumberOf(c) ==
    IF c.t = "num" THEN c
    ELSE IF IsStr(c) /\ ParseNumeric(c.s).ok THEN ParseNumeric(c.s).val
    ELSE Null

\* load_cashflow_data on a table with the three required columns succeeds,
\* stores it with its rows, and gives every date cell dateOf(cell) and every
\* numeric cell C8_NumberOf(cell).
C8_Coerced(dateOf(_)) ==
    (LoadedLast({"cashflow"}) /\ SpecRequired["cashflow"] \subseteq LastInput.cols) =>
        /\ last.raised = "none"
        /\ cashflow_details = last.obj
        /\ LastOutput.cols = LastInput.cols
        /\ Len(LastOutput.rows) = Len(LastInput.rows)
        /\ \A i \in 1..Len(LastInput.rows) :
               /\ \A col \in SpecDateColumns \cap LastInput.cols :
                      LastOutput.rows[i][col] = dateOf(LastInput.rows[i][col])
               /\ \A col \in SpecNumericColumns \cap LastInput.cols :
                      LastOutput.rows[i][col] = C8_NumberOf(LastInput.rows[i][col])

\* C8 as stated: load_cashflow_data with the required columns never fails;
\* every date cell that is not a valid day-month-year string becomes null,
\* every numeric cell that is not a number becomes null, the others become
\* their date or number, and the table is stored with its rows.
C8_CashflowCellsCoerced == C8_Coerced(C8_DateOfString)

\* C8 amended: the same, except that a date cell that is already a date
\* (the table was loaded before) stays that date.
C8_CashflowCellsCoercedOrKept ==
    C8_Coerced(LAMBDA c : IF c.t = "date" THEN c ELSE C8_DateOfString(c))

\* A successful cashflow load of a table with an optional date and an
\* optional numeric column, holding valid and invalid date strings, numeric
\* and non-numeric strings, nulls and numbers.
C8_Witness ==
    /\ LoadedLast({"cashflow"}) /\ last.raised = "none"
    /\ {"record_date", "principal_amount"} \subseteq LastInput.cols
    /\ \E i, j, k \in 1..Len(LastInput.rows) :
           /\ LastInput.rows[i]["cash_flow_date"] = Str(dPadded)
           /\ LastOutput.rows[i]["cash_flow_date"] = Date(5, 3, 2023)
           /\ LastInput.rows[i]["cash_flow_amount"] = Str(nDecimal)
           /\ LastOutput.rows[i]["cash_flow_amount"] = Num(FALSE, 123, <<4, 5>>)
           /\ LastInput.rows[i]["record_date"] = Str(dWords)
           /\ LastInput.rows[i]["principal_amount"] = Str(sab)
           /\ LastInput.rows[j]["cash_flow_date"] = Str(dNoDay)
           /\ LastInput.rows[j]["cash_flow_amount"] = Null
           /\ LastInput.rows[k]["cash_flow_date"].t = "num"

-----------------------------------------------------------------------------
(* C9 *)

\* C9: a retrieval call, whatever it returns or raises, leaves the three
\* stored references and every table as they were.
C9_RetrievalChangesNothing ==
    GotLast(Kinds) =>
        /\ heap = last.pre.heap
        /\ bond_details = last.pre.bond
        /\ cashflow_details = last.pre.cashflow
        /\ company_insights = last.pre.company

\* A filtered retrieval returned some but not all rows of a stored table.
C9_Witness ==
    /\ GotLast({"bond"}) /\ last.raised = "none" /\ Truthy(last.arg)
    /\ Len(last.ret.df.rows) \in 1..(Len(heap[bond_details].rows) - 1)

-----------------------------------------------------------------------------
(* C10 *)

\* The last call was load_bond_data / load_company_data on the very table
\* stored for its kind (the table an unfiltered get returns).
C10_Reloaded == LoadedLast({"bond", "company"}) /\ last.obj = last.pre[last.kind]

\* The reload succeeded, kept the rows and the other columns, and left
\* every structured cell empty.
C10_Emptied ==
    /\ last.raised = "none"
    /\ LastOutput.cols = LastInput.cols
    /\ Len(LastOutput.rows) = Len(LastInput.rows)
    /\ \A i \in 1..Len(LastInput.rows) : \A col \in LastInput.cols :
           LastOutput.rows[i][col] =
               IF col \in SpecStructured[last.kind] THEN EmptyDict
               ELSE LastInput.rows[i][col]

\* C10 as stated: loading the stored table again succeeds and empties every
\* structured cell, whatever parsed content it held.
C10_ReloadEmptiesStructured == C10_Reloaded => C10_Emptied

\* C10 amended: the same, provided no structured cell of the stored table
\* holds a non-blank string (the parsed value of a JSON string literal).
C10_ReloadEmptiesNonStrings ==
    (C10_Reloaded /\ ~SomeStructuredCell(last.kind, LastInput,
                                         LAMBDA c : IsStr(c) /\ ~Blank(c)))
        => C10_Emptied

\* A stored bond table holding a parsed object, array and number is loaded
\* again.
C10_Witness ==
    /\ C10_Reloaded /\ last.kind = "bond" /\ last.raised = "none"
    /\ SomeStructuredCell("bond", LastInput, LAMBDA c : c.t = "obj" /\ c # EmptyDict)
    /\ SomeStructuredCell("bond", LastInput, LAMBDA c : c.t = "arr")
    /\ SomeStructuredCell("bond", LastInput, LAMBDA c : c.t = "num")

====
